---- MODULE Spec2Model ----
(***************************************************************************)
(* Model of src/src/dnsblast/dns-blast.go: Start, getNameservers, the      *)
(* per-nameserver round loop ExecuteStressTest and the query tasks it      *)
(* fans out (SimpleQueryWithNoResponse).                                   *)
(***************************************************************************)
EXTENDS Integers, Sequences, FiniteSets, TLC

(* ------------------------------ bounds --------------------------------- *)
\* most NS records a lookup answers with (one worker per record)
MaxNS == 2
\* largest ParallelQueries explored
MaxPQ == 2
\* rounds a worker runs before the exploration stops following it
MaxRounds == 2
\* longest NS answer given to getNameservers on its own (NSSpec)
MaxRecords == 3
\* rounds the heartbeat is followed for on its own (HBSpec)
HBRounds == 520
\* largest round-trip time an exchange reports (SQSpec)
MaxRtt == 2

(* ------------------------- program constants --------------------------- *)
DefaultDNSPort == 53
DefaultDNSOverTLSPort == 853
UDPProtoName == "udp"
TCPProtoName == "tcp"
TCPTLSProtoName == "tcp-tls"
keepAliveReminder == 256

Protocols == {UDPProtoName, TCPProtoName, TCPTLSProtoName}

(* Strings are sequences of one-character strings, so that formatting is   *)
(* computed rather than assumed.                                           *)
DigitChars == <<"0", "1", "2", "3", "4", "5", "6", "7", "8", "9">>

RECURSIVE Itoa(_)
\* strconv.Itoa for n >= 0
Itoa(n) == IF n < 10 THEN <<DigitChars[n + 1]>>
           ELSE Itoa(n \div 10) \o <<DigitChars[(n % 10) + 1]>>

HasChar(s, c) == \E k \in 1..Len(s) : s[k] = c

\* net.JoinHostPort: a host holding a colon is bracketed
JoinHostPort(host, port) ==
    IF HasChar(host, ":") THEN <<"[">> \o host \o <<"]", ":">> \o port
    ELSE host \o <<":">> \o port

\* host names net.LookupNS can answer with
HostA == <<"a", ".">>
HostB == <<"n", "s", ".", "b", ".">>
HostC == <<"c", "-", "1", ".">>
Hosts == {HostA, HostB, HostC}

RECURSIVE SeqsUpTo(_, _)
SeqsUpTo(S, n) == IF n = 0 THEN {<<>>}
                  ELSE LET shorter == SeqsUpTo(S, n - 1)
                       IN  shorter \cup {Append(s, x) : s \in shorter, x \in S}

\* what net.LookupNS answers with: an error, or the NS records' hosts
LookupNS(failed, hosts) == [err |-> failed, hosts |-> IF failed THEN <<>> ELSE hosts]

\* the port chosen without looking at the protocol
PortForAnyProtocol(protocol) == DefaultDNSPort

PortFor(protocol) ==
    IF protocol = TCPTLSProtoName THEN DefaultDNSOverTLSPort ELSE DefaultDNSPort

\* getNameservers(rootDomain, protocol), given the lookup's answer
getNameservers(lookup, protocol) ==
    LET port == PortFor(protocol)
    IN  IF lookup.err
        THEN [res |-> <<>>, err |-> TRUE]
        ELSE [res |-> [k \in 1..Len(lookup.hosts) |->
                          JoinHostPort(lookup.hosts[k], Itoa(port))],
              err |-> FALSE]

(* ------------------------------- state --------------------------------- *)
VARIABLES
    \* Config and environment, fixed by Init
    protocol,        \* Config.Protocol
    delay,           \* Config.Delay (0, or 1 for any positive duration)
    parallelQueries, \* Config.ParallelQueries
    seedDomains,     \* Config.SeedDomains
    lookup,          \* the answer net.LookupNS gives for Config.RootDomain
    \* Start
    startPc,         \* "resolve", "spawn", "returned"
    startErr,        \* Start's return value: "none", "nil", "error"
    lookups,         \* number of calls of getNameservers
    nameservers,     \* Start's nameservers
    spawned,         \* number of workers Start has spawned
    \* ctx
    cancelled,       \* ctx.Done() is closed
    \* ExecuteStressTest, one per nameserver
    wpc,             \* position of the worker
    stopReason,      \* why ExecuteStressTest returned
    round,           \* names received from the generator
    qname,           \* reusableQuery.QName (index of the generated name)
    keepAliveCounter,
    spawnI,          \* loop variable i of the fan-out loop
    awaitGroup,      \* counter of the sync.WaitGroup
    ticker,          \* nextLoopTicker: "none", "running", "stopped"
    tickerC,         \* ticks buffered in nextLoopTicker.C (capacity 1)
    generator,       \* dhhGenerator: "none", "live", "cancelled"
    \* query goroutines
    tasks,           \* tasks[w][<<round, i>>]: "none", "dial", "exch"
    errLogs,         \* query-error lines written to the log
    \* more of ExecuteStressTest and of its query goroutines
    hostAndPort,     \* reusableQuery.HostAndPort
    heartbeats,      \* rounds at which the "Still blasting" line was logged
    firedSinceJoin,  \* the ticker has fired since awaitGroup.Wait() returned
    cancelCalls,     \* calls of dhhGenerator.Cancel()
    question,        \* the question a connected query goroutine has built
    exchangedOn,     \* connections the exchanges ran on: "co", "new"
    \* SimpleQuery, called on its own
    sqIn,            \* what Dial and ExchangeWithConn answer with
    sq               \* position, connection and result of the call

cfgVars == <<protocol, delay, parallelQueries, seedDomains, lookup>>
startVars == <<startPc, startErr, lookups, nameservers, spawned>>
workerVars == <<wpc, stopReason, round, qname, keepAliveCounter, spawnI,
                awaitGroup, ticker, tickerC, generator>>
sqVars == <<sqIn, sq>>
auxVars == <<hostAndPort, heartbeats, firedSinceJoin, cancelCalls, question,
             exchangedOn, sqVars>>
vars == <<cfgVars, startVars, cancelled, workerVars, tasks, errLogs, auxVars>>

Workers == 1..MaxNS
TaskIds == (1..MaxRounds) \X (1..MaxPQ)

\* hosts of the NS answers explored together with the workers
RunHosts == <<HostA, HostB, HostC, HostA, HostB, HostC>>
RunAnswers == {SubSeq(RunHosts, 1, k) : k \in 0..MaxNS}

SeedChoices == {<<>>, <<"a.example.com">>}

\* dns.TypeA
TypeA == "A"
NoQuestion == [name |-> 0, qtype |-> "", host |-> <<>>]

\* SimpleQuery before it is called
SQIdle == [pc |-> "idle", conn |-> "none", exchanges |-> 0,
           response |-> [WithErr |-> FALSE, Err |-> "nil", Latency |-> 0]]
SQNoInput == [dialErr |-> "nil", exchErr |-> "nil", rtt |-> 0]

\* the state of what the workers do not touch until they run
AuxInit ==
    /\ hostAndPort = [w \in Workers |-> <<>>]
    /\ heartbeats = [w \in Workers |-> <<>>]
    /\ firedSinceJoin = [w \in Workers |-> FALSE]
    /\ cancelCalls = [w \in Workers |-> 0]
    /\ question = [w \in Workers |-> [t \in TaskIds |-> NoQuestion]]
    /\ exchangedOn = {}

TypeOK ==
    /\ protocol \in Protocols
    /\ delay \in 0..1
    /\ parallelQueries \in 1..MaxPQ
    /\ seedDomains \in SeedChoices
    /\ startPc \in {"resolve", "spawn", "returned"}
    /\ startErr \in {"none", "nil", "error"}
    /\ lookups \in 0..1
    /\ spawned \in 0..MaxNS
    /\ cancelled \in BOOLEAN
    /\ wpc \in [Workers -> {"unspawned", "ticker", "bootstrap", "next", "check",
                            "dispatch", "spawn", "await", "pace", "stopped"}]
    /\ stopReason \in [Workers -> {"none", "cancel", "bootstrap", "panic"}]
    /\ round \in [Workers -> 0..MaxRounds]
    /\ spawnI \in [Workers -> 0..MaxPQ]
    /\ awaitGroup \in [Workers -> 0..MaxPQ * MaxRounds]
    /\ ticker \in [Workers -> {"none", "running", "stopped"}]
    /\ tickerC \in [Workers -> 0..1]
    /\ generator \in [Workers -> {"none", "live", "cancelled"}]
    /\ tasks \in [Workers -> [TaskIds -> {"none", "dial", "exch"}]]
    /\ errLogs \in 0..(MaxNS * MaxPQ * MaxRounds)
    /\ firedSinceJoin \in [Workers -> BOOLEAN]
    /\ cancelCalls \in [Workers -> 0..1]
    /\ exchangedOn \subseteq {"co", "new"}
    /\ \A w \in Workers : \A t \in TaskIds : question[w][t].name \in 0..MaxRounds

Init ==
    /\ protocol \in Protocols
    /\ delay \in 0..1
    /\ parallelQueries \in 1..MaxPQ
    /\ seedDomains \in SeedChoices
    /\ lookup \in {LookupNS(TRUE, <<>>)} \cup {LookupNS(FALSE, a) : a \in RunAnswers}
    /\ startPc = "resolve"
    /\ startErr = "none"
    /\ lookups = 0
    /\ nameservers = <<>>
    /\ spawned = 0
    /\ cancelled = FALSE
    /\ wpc = [w \in Workers |-> "unspawned"]
    /\ stopReason = [w \in Workers |-> "none"]
    /\ round = [w \in Workers |-> 0]
    /\ qname = [w \in Workers |-> 0]
    /\ keepAliveCounter = [w \in Workers |-> 0]
    /\ spawnI = [w \in Workers |-> 0]
    /\ awaitGroup = [w \in Workers |-> 0]
    /\ ticker = [w \in Workers |-> "none"]
    /\ tickerC = [w \in Workers |-> 0]
    /\ generator = [w \in Workers |-> "none"]
    /\ tasks = [w \in Workers |-> [t \in TaskIds |-> "none"]]
    /\ errLogs = 0
    /\ AuxInit
    /\ sqIn = SQNoInput
    /\ sq = SQIdle

(* ------------------------------- Start --------------------------------- *)
\* the resolution error dropped: Start goes on to its spawn loop
StartResolveDroppingError ==
    /\ startPc = "resolve"
    /\ lookups' = lookups + 1
    /\ startPc' = "spawn"
    /\ startErr' = startErr
    /\ nameservers' = getNameservers(lookup, protocol).res
    /\ UNCHANGED <<spawned, cfgVars, cancelled, workerVars, tasks, errLogs>>
    /\ UNCHANGED <<hostAndPort, heartbeats, firedSinceJoin, cancelCalls, question, exchangedOn, sqVars>>

\* Start, lines 44-60: resolve the nameservers, return the error if any
StartResolve ==
    /\ startPc = "resolve"
    /\ lookups' = lookups + 1
    /\ LET r == getNameservers(lookup, protocol)
       IN  IF r.err
           THEN /\ startPc' = "returned"
                /\ startErr' = "error"
                /\ nameservers' = r.res
           ELSE /\ startPc' = "spawn"
                /\ startErr' = startErr
                /\ nameservers' = r.res
    /\ UNCHANGED <<spawned, cfgVars, cancelled, workerVars, tasks, errLogs>>
    /\ UNCHANGED <<hostAndPort, heartbeats, firedSinceJoin, cancelCalls, question, exchangedOn, sqVars>>

\* Start, lines 62-73: one iteration of the loop, go func(nameserver, ...)
StartSpawn ==
    /\ startPc = "spawn"
    /\ spawned < Len(nameservers)
    /\ spawned' = spawned + 1
    /\ wpc' = [wpc EXCEPT ![spawned + 1] = "ticker"]
    /\ UNCHANGED <<startPc, startErr, lookups, nameservers, cfgVars, cancelled,
                   stopReason, round, qname, keepAliveCounter, spawnI, awaitGroup,
                   ticker, tickerC, generator, tasks, errLogs>>
    /\ UNCHANGED <<hostAndPort, heartbeats, firedSinceJoin, cancelCalls, question, exchangedOn, sqVars>>

\* Start joining its workers before it returns
StartMayReturnAfterJoin ==
    /\ spawned = Len(nameservers)
    /\ \A w \in 1..spawned : wpc[w] = "stopped"

\* what lets Start leave its loop and return
StartMayReturn == spawned = Len(nameservers)

\* Start, line 75: return nil
StartReturn ==
    /\ startPc = "spawn"
    /\ StartMayReturn
    /\ startPc' = "returned"
    /\ startErr' = "nil"
    /\ UNCHANGED <<lookups, nameservers, spawned, cfgVars, cancelled, workerVars,
                   tasks, errLogs>>
    /\ UNCHANGED <<hostAndPort, heartbeats, firedSinceJoin, cancelCalls, question, exchangedOn, sqVars>>

StartNext == StartResolve \/ StartSpawn \/ StartReturn

\* the caller closes ctx.Done()
Cancel ==
    /\ ~cancelled
    /\ cancelled' = TRUE
    /\ UNCHANGED <<cfgVars, startVars, workerVars, tasks, errLogs>>
    /\ UNCHANGED <<hostAndPort, heartbeats, firedSinceJoin, cancelCalls, question, exchangedOn, sqVars>>

(* ------------------------- collaborators ------------------------------- *)
\* utils.PanicHandler, deferred at every goroutine's head: it recovers the
\* panic and logs it, so the panicking goroutine ends where it stands (its
\* remaining statements are skipped) and every other goroutine carries on.
PanicHandler(positionAfterReturn) == positionAfterReturn

\* NewDistinctHeavyHitterGenerator: fails when there are no seeds
NewDistinctHeavyHitterGenerator(seeds) ==
    IF Len(seeds) = 0 THEN "error" ELSE "live"

\* dhhGenerator.Next(): an endless sequence of names; the k-th one is named k
GeneratorNext(received) == received + 1

(* ------------------------- ExecuteStressTest --------------------------- *)
otherWorkerVars == <<stopReason, round, qname, keepAliveCounter, spawnI,
                     awaitGroup, ticker, tickerC, generator>>

\* every goroutine reading the loop variable of Start's loop after the loop
NameserverLoopVariable(w) == nameservers[Len(nameservers)]

\* line 72: the nameserver is handed to the goroutine as its argument
NameserverArgument(w) == nameservers[w]

\* lines 92-104: reusableQuery is built for the worker's nameserver;
\* time.NewTicker panics for a non-positive interval, the deferred
\* PanicHandler of line 90 recovers and ExecuteStressTest returns
NewTicker(w) ==
    /\ wpc[w] = "ticker"
    /\ hostAndPort' = [hostAndPort EXCEPT ![w] = NameserverArgument(w)]
    /\ IF delay <= 0
       THEN /\ wpc' = [wpc EXCEPT ![w] = PanicHandler("stopped")]
            /\ stopReason' = [stopReason EXCEPT ![w] = "panic"]
            /\ ticker' = ticker
       ELSE /\ wpc' = [wpc EXCEPT ![w] = "bootstrap"]
            /\ stopReason' = stopReason
            /\ ticker' = [ticker EXCEPT ![w] = "running"]
    /\ UNCHANGED <<round, qname, keepAliveCounter, spawnI, awaitGroup, tickerC,
                   generator, cfgVars, startVars, cancelled, tasks, errLogs>>
    /\ UNCHANGED <<heartbeats, firedSinceJoin, cancelCalls, question, exchangedOn, sqVars>>

\* a bootstrap failure treated as fatal to the whole run
BootstrapFatal(w) ==
    /\ wpc[w] = "bootstrap"
    /\ LET g == NewDistinctHeavyHitterGenerator(seedDomains)
       IN  IF g = "error"
           THEN /\ wpc' = [v \in Workers |->
                              IF wpc[v] = "unspawned" THEN wpc[v] ELSE "stopped"]
                /\ stopReason' = [stopReason EXCEPT ![w] = "bootstrap"]
                /\ generator' = generator
           ELSE /\ wpc' = [wpc EXCEPT ![w] = "next"]
                /\ stopReason' = stopReason
                /\ generator' = [generator EXCEPT ![w] = g]
    /\ UNCHANGED <<round, qname, keepAliveCounter, spawnI, awaitGroup, ticker,
                   tickerC, cfgVars, startVars, cancelled, tasks, errLogs>>
    /\ UNCHANGED <<hostAndPort, heartbeats, firedSinceJoin, cancelCalls, question, exchangedOn, sqVars>>

\* lines 106-112: bootstrap the generator; on failure return the error
\* (the defers of lines 111-112 are not registered yet)
Bootstrap(w) ==
    /\ wpc[w] = "bootstrap"
    /\ LET g == NewDistinctHeavyHitterGenerator(seedDomains)
       IN  IF g = "error"
           THEN /\ wpc' = [wpc EXCEPT ![w] = "stopped"]
                /\ stopReason' = [stopReason EXCEPT ![w] = "bootstrap"]
                /\ generator' = generator
           ELSE /\ wpc' = [wpc EXCEPT ![w] = "next"]
                /\ stopReason' = stopReason
                /\ generator' = [generator EXCEPT ![w] = g]
    /\ UNCHANGED <<round, qname, keepAliveCounter, spawnI, awaitGroup, ticker,
                   tickerC, cfgVars, startVars, cancelled, tasks, errLogs>>
    /\ UNCHANGED <<hostAndPort, heartbeats, firedSinceJoin, cancelCalls, question, exchangedOn, sqVars>>

\* lines 116-121: log and reset when the counter equals keepAliveReminder,
\* count otherwise
KeepAlive(counter) ==
    IF counter = keepAliveReminder
    THEN [log |-> TRUE, counter |-> 0]
    ELSE [log |-> FALSE, counter |-> counter + 1]

\* lines 115-121: receive the round's name into reusableQuery.QName, then the
\* heartbeat
LoopHead(w) ==
    LET k == KeepAlive(keepAliveCounter[w])
    IN  /\ round' = [round EXCEPT ![w] = GeneratorNext(@)]
        /\ qname' = [qname EXCEPT ![w] = GeneratorNext(round[w])]
        /\ keepAliveCounter' = [keepAliveCounter EXCEPT ![w] = k.counter]
        /\ heartbeats' = [heartbeats EXCEPT ![w] =
               IF k.log THEN Append(@, GeneratorNext(round[w])) ELSE @]

\* lines 115-121: the loop head.
\* A worker is followed for MaxRounds rounds; past that only towards the
\* cancellation check, which then ends it.
GenerateName(w) ==
    /\ wpc[w] = "next"
    /\ generator[w] = "live"
    /\ round[w] < MaxRounds \/ cancelled
    /\ IF round[w] < MaxRounds
       THEN LoopHead(w)
       ELSE UNCHANGED <<round, qname, keepAliveCounter, heartbeats>>
    /\ firedSinceJoin' = [firedSinceJoin EXCEPT ![w] = FALSE]
    /\ wpc' = [wpc EXCEPT ![w] = "check"]
    /\ UNCHANGED <<stopReason, spawnI, awaitGroup, ticker, tickerC, generator,
                   cfgVars, startVars, cancelled, tasks, errLogs>>
    /\ UNCHANGED <<hostAndPort, cancelCalls, question, exchangedOn, sqVars>>

\* a return that leaves the generator running
ReturnWithoutCancel(w, reason) ==
    /\ wpc' = [wpc EXCEPT ![w] = "stopped"]
    /\ stopReason' = [stopReason EXCEPT ![w] = reason]
    /\ ticker' = [ticker EXCEPT ![w] = "stopped"]
    /\ generator' = generator
    /\ cancelCalls' = cancelCalls

\* return nil with the defers of lines 111-112: ticker stopped, generator cancelled
Return(w, reason) ==
    /\ wpc' = [wpc EXCEPT ![w] = "stopped"]
    /\ stopReason' = [stopReason EXCEPT ![w] = reason]
    /\ ticker' = [ticker EXCEPT ![w] = "stopped"]
    /\ generator' = [generator EXCEPT ![w] = "cancelled"]
    /\ cancelCalls' = [cancelCalls EXCEPT ![w] = @ + 1]

\* a pre-dispatch check that never takes ctx.Done()
CheckCancellationSkipped(w) ==
    /\ wpc[w] = "check"
    /\ wpc' = [wpc EXCEPT ![w] = "dispatch"]
    /\ UNCHANGED <<stopReason, ticker, generator, cancelCalls>>
    /\ UNCHANGED <<round, qname, keepAliveCounter, spawnI, awaitGroup, tickerC,
                   cfgVars, startVars, cancelled, tasks, errLogs>>
    /\ UNCHANGED <<hostAndPort, heartbeats, firedSinceJoin, question, exchangedOn, sqVars>>

\* lines 123-129: select on ctx.Done() with a default
CheckCancellation(w) ==
    /\ wpc[w] = "check"
    /\ IF cancelled
       THEN Return(w, "cancel")
       ELSE /\ wpc' = [wpc EXCEPT ![w] = "dispatch"]
            /\ UNCHANGED <<stopReason, ticker, generator, cancelCalls>>
    /\ UNCHANGED <<round, qname, keepAliveCounter, spawnI, awaitGroup, tickerC,
                   cfgVars, startVars, cancelled, tasks, errLogs>>
    /\ UNCHANGED <<hostAndPort, heartbeats, firedSinceJoin, question, exchangedOn, sqVars>>

\* awaitGroup.Add(1) where Add(ParallelQueries) is meant
DispatchRoundAddingOne(w) ==
    /\ wpc[w] = "dispatch"
    /\ awaitGroup' = [awaitGroup EXCEPT ![w] = @ + 1]
    /\ spawnI' = [spawnI EXCEPT ![w] = 0]
    /\ wpc' = [wpc EXCEPT ![w] = "spawn"]
    /\ UNCHANGED <<stopReason, round, qname, keepAliveCounter, ticker, tickerC,
                   generator, cfgVars, startVars, cancelled, tasks, errLogs>>
    /\ UNCHANGED <<hostAndPort, heartbeats, firedSinceJoin, cancelCalls, question, exchangedOn, sqVars>>

\* lines 131-132: awaitGroup.Add(ParallelQueries), i := 0
DispatchRound(w) ==
    /\ wpc[w] = "dispatch"
    /\ awaitGroup' = [awaitGroup EXCEPT ![w] = @ + parallelQueries]
    /\ spawnI' = [spawnI EXCEPT ![w] = 0]
    /\ wpc' = [wpc EXCEPT ![w] = "spawn"]
    /\ UNCHANGED <<stopReason, round, qname, keepAliveCounter, ticker, tickerC,
                   generator, cfgVars, startVars, cancelled, tasks, errLogs>>
    /\ UNCHANGED <<hostAndPort, heartbeats, firedSinceJoin, cancelCalls, question, exchangedOn, sqVars>>

\* lines 132-138: one iteration of the fan-out loop, go func() {...}()
SpawnQuery(w) ==
    /\ wpc[w] = "spawn"
    /\ spawnI[w] < parallelQueries
    /\ tasks' = [tasks EXCEPT ![w][<<round[w], spawnI[w] + 1>>] = "dial"]
    /\ spawnI' = [spawnI EXCEPT ![w] = @ + 1]
    /\ wpc' = [wpc EXCEPT ![w] = IF spawnI[w] + 1 < parallelQueries
                                 THEN "spawn" ELSE "await"]
    /\ UNCHANGED <<stopReason, round, qname, keepAliveCounter, awaitGroup, ticker,
                   tickerC, generator, cfgVars, startVars, cancelled, errLogs>>
    /\ UNCHANGED <<hostAndPort, heartbeats, firedSinceJoin, cancelCalls, question, exchangedOn, sqVars>>

\* a join that does not wait
WaitReturnsAtOnce(w) == TRUE

\* awaitGroup.Wait() returns once the counter is zero
WaitReturns(w) == awaitGroup[w] = 0

\* line 139: the join
AwaitRound(w) ==
    /\ wpc[w] = "await"
    /\ WaitReturns(w)
    /\ wpc' = [wpc EXCEPT ![w] = "pace"]
    /\ firedSinceJoin' = [firedSinceJoin EXCEPT ![w] = FALSE]
    /\ UNCHANGED <<otherWorkerVars, cfgVars, startVars, cancelled, tasks, errLogs>>
    /\ UNCHANGED <<hostAndPort, heartbeats, cancelCalls, question, exchangedOn, sqVars>>

\* lines 141-144: the select takes ctx.Done()
PaceCancelled(w) ==
    /\ wpc[w] = "pace"
    /\ cancelled
    /\ Return(w, "cancel")
    /\ UNCHANGED <<round, qname, keepAliveCounter, spawnI, awaitGroup, tickerC,
                   cfgVars, startVars, cancelled, tasks, errLogs>>
    /\ UNCHANGED <<hostAndPort, heartbeats, firedSinceJoin, question, exchangedOn, sqVars>>

\* a pacing select with a default: it goes on without a tick
PaceTickNotAwaited(w) ==
    /\ wpc[w] = "pace"
    /\ tickerC' = [tickerC EXCEPT ![w] = 0]
    /\ wpc' = [wpc EXCEPT ![w] = "next"]
    /\ UNCHANGED <<stopReason, round, qname, keepAliveCounter, spawnI, awaitGroup,
                   ticker, generator, cfgVars, startVars, cancelled, tasks, errLogs>>
    /\ UNCHANGED <<hostAndPort, heartbeats, firedSinceJoin, cancelCalls, question, exchangedOn, sqVars>>

\* lines 141, 145-146: the select takes a tick from nextLoopTicker.C
PaceTick(w) ==
    /\ wpc[w] = "pace"
    /\ tickerC[w] = 1
    /\ tickerC' = [tickerC EXCEPT ![w] = 0]
    /\ wpc' = [wpc EXCEPT ![w] = "next"]
    /\ UNCHANGED <<stopReason, round, qname, keepAliveCounter, spawnI, awaitGroup,
                   ticker, generator, cfgVars, startVars, cancelled, tasks, errLogs>>
    /\ UNCHANGED <<hostAndPort, heartbeats, firedSinceJoin, cancelCalls, question, exchangedOn, sqVars>>

\* the runtime's timer: a running ticker sends into its channel every Delay;
\* a tick that finds the channel full is dropped (it is followed only where
\* it is the first firing since the join)
Tick(w) ==
    /\ ticker[w] = "running"
    /\ tickerC[w] = 0 \/ (wpc[w] = "pace" /\ ~firedSinceJoin[w])
    /\ tickerC' = [tickerC EXCEPT ![w] = 1]
    /\ firedSinceJoin' = [firedSinceJoin EXCEPT ![w] = (wpc[w] = "pace")]
    /\ UNCHANGED <<wpc, stopReason, round, qname, keepAliveCounter, spawnI,
                   awaitGroup, ticker, generator, cfgVars, startVars, cancelled,
                   tasks, errLogs>>
    /\ UNCHANGED <<hostAndPort, heartbeats, cancelCalls, question, exchangedOn, sqVars>>

(* --------------------------- query goroutines -------------------------- *)
LiveTasks(w) == {t \in TaskIds : tasks[w][t] # "none"}

\* lines 192-193: the question is built from the shared reusableQuery when
\* the query goroutine runs
Question(w) == [name |-> qname[w], qtype |-> TypeA, host |-> hostAndPort[w]]

\* line 207: sharedDNSClient.Exchange(question, HostAndPort) is given an
\* address, not co: it dials a connection of its own, exchanges on it and
\* closes it; co (line 195) is closed unused by the defer of line 205
ExchangeConnection == "new"

\* Done() reached only after a query that succeeded
QueryTaskExitDoneOnSuccess(w, outcome) ==
    IF outcome = "ok"
    THEN [awaitGroup EXCEPT ![w] = @ - 1]
    ELSE awaitGroup

\* lines 133-137: the goroutine's end. awaitGroup.Done() is the statement after
\* the query, so it runs when the query returned ("ok", "error") and is skipped
\* when the query panicked and PanicHandler recovered.
QueryTaskExit(w, outcome) ==
    IF outcome = "panic"
    THEN awaitGroup
    ELSE [awaitGroup EXCEPT ![w] = @ - 1]

\* lines 192-200: the dial fails; logged, return
QueryDialError(w, t) ==
    /\ tasks[w][t] = "dial"
    /\ tasks' = [tasks EXCEPT ![w][t] = "none"]
    /\ errLogs' = errLogs + 1
    /\ awaitGroup' = QueryTaskExit(w, "error")
    /\ UNCHANGED <<wpc, stopReason, round, qname, keepAliveCounter, spawnI, ticker,
                   tickerC, generator, cfgVars, startVars, cancelled>>
    /\ UNCHANGED <<hostAndPort, heartbeats, firedSinceJoin, cancelCalls, question, exchangedOn, sqVars>>

\* lines 192-205: the dial succeeds
QueryDialOk(w, t) ==
    /\ tasks[w][t] = "dial"
    /\ tasks' = [tasks EXCEPT ![w][t] = "exch"]
    /\ question' = [question EXCEPT ![w][t] = Question(w)]
    /\ UNCHANGED <<workerVars, cfgVars, startVars, cancelled, errLogs>>
    /\ UNCHANGED <<hostAndPort, heartbeats, firedSinceJoin, cancelCalls, exchangedOn, sqVars>>

\* lines 207-211: the exchange fails or times out; logged, return
QueryExchangeError(w, t) ==
    /\ tasks[w][t] = "exch"
    /\ tasks' = [tasks EXCEPT ![w][t] = "none"]
    /\ question' = [question EXCEPT ![w][t] = NoQuestion]
    /\ exchangedOn' = exchangedOn \cup {ExchangeConnection}
    /\ errLogs' = errLogs + 1
    /\ awaitGroup' = QueryTaskExit(w, "error")
    /\ UNCHANGED <<wpc, stopReason, round, qname, keepAliveCounter, spawnI, ticker,
                   tickerC, generator, cfgVars, startVars, cancelled>>
    /\ UNCHANGED <<hostAndPort, heartbeats, firedSinceJoin, cancelCalls, sqVars>>

\* lines 207-212: the exchange completes, return
QueryExchangeOk(w, t) ==
    /\ tasks[w][t] = "exch"
    /\ tasks' = [tasks EXCEPT ![w][t] = "none"]
    /\ question' = [question EXCEPT ![w][t] = NoQuestion]
    /\ exchangedOn' = exchangedOn \cup {ExchangeConnection}
    /\ awaitGroup' = QueryTaskExit(w, "ok")
    /\ UNCHANGED <<wpc, stopReason, round, qname, keepAliveCounter, spawnI, ticker,
                   tickerC, generator, cfgVars, startVars, cancelled, errLogs>>
    /\ UNCHANGED <<hostAndPort, heartbeats, firedSinceJoin, cancelCalls, sqVars>>

\* lines 134-135: an unexpected failure inside the query, recovered by the
\* goroutine's PanicHandler
QueryPanic(w, t) ==
    /\ tasks[w][t] # "none"
    /\ tasks' = [tasks EXCEPT ![w][t] = PanicHandler("none")]
    /\ question' = [question EXCEPT ![w][t] = NoQuestion]
    /\ awaitGroup' = QueryTaskExit(w, "panic")
    /\ UNCHANGED <<wpc, stopReason, round, qname, keepAliveCounter, spawnI, ticker,
                   tickerC, generator, cfgVars, startVars, cancelled, errLogs>>
    /\ UNCHANGED <<hostAndPort, heartbeats, firedSinceJoin, cancelCalls, exchangedOn, sqVars>>

(* ---------------------------- specification ---------------------------- *)
WorkerNext(w) ==
    \/ NewTicker(w)
    \/ Bootstrap(w)
    \/ GenerateName(w)
    \/ CheckCancellation(w)
    \/ DispatchRound(w)
    \/ SpawnQuery(w)
    \/ AwaitRound(w)
    \/ PaceCancelled(w)
    \/ PaceTick(w)

QueryNext(w, t) ==
    \/ QueryDialError(w, t)
    \/ QueryDialOk(w, t)
    \/ QueryExchangeError(w, t)
    \/ QueryExchangeOk(w, t)
    \/ QueryPanic(w, t)

Next ==
    \/ StartResolve
    \/ StartSpawn
    \/ StartReturn
    \/ Cancel
    \/ \E w \in Workers : NewTicker(w)
    \/ \E w \in Workers : Bootstrap(w)
    \/ \E w \in Workers : GenerateName(w)
    \/ \E w \in Workers : CheckCancellation(w)
    \/ \E w \in Workers : DispatchRound(w)
    \/ \E w \in Workers : SpawnQuery(w)
    \/ \E w \in Workers : AwaitRound(w)
    \/ \E w \in Workers : PaceCancelled(w)
    \/ \E w \in Workers : PaceTick(w)
    \/ \E w \in Workers : Tick(w)
    \/ \E w \in Workers, t \in TaskIds : QueryDialError(w, t)
    \/ \E w \in Workers, t \in TaskIds : QueryDialOk(w, t)
    \/ \E w \in Workers, t \in TaskIds : QueryExchangeError(w, t)
    \/ \E w \in Workers, t \in TaskIds : QueryExchangeOk(w, t)
    \/ \E w \in Workers, t \in TaskIds : QueryPanic(w, t)

Spec == Init /\ [][Next]_vars

\* getNameservers on its own: Init draws the protocol and the NS answer,
\* the one action applies it
NSInit ==
    /\ protocol \in Protocols
    /\ lookup \in {LookupNS(TRUE, <<>>)} \cup
                  {LookupNS(FALSE, a) : a \in SeqsUpTo(Hosts, MaxRecords)}
    /\ delay = 1
    /\ parallelQueries = 1
    /\ seedDomains = <<"a.example.com">>
    /\ startPc = "resolve"
    /\ startErr = "none"
    /\ lookups = 0
    /\ nameservers = <<>>
    /\ spawned = 0
    /\ cancelled = FALSE
    /\ wpc = [w \in Workers |-> "unspawned"]
    /\ stopReason = [w \in Workers |-> "none"]
    /\ round = [w \in Workers |-> 0]
    /\ qname = [w \in Workers |-> 0]
    /\ keepAliveCounter = [w \in Workers |-> 0]
    /\ spawnI = [w \in Workers |-> 0]
    /\ awaitGroup = [w \in Workers |-> 0]
    /\ ticker = [w \in Workers |-> "none"]
    /\ tickerC = [w \in Workers |-> 0]
    /\ generator = [w \in Workers |-> "none"]
    /\ tasks = [w \in Workers |-> [t \in TaskIds |-> "none"]]
    /\ errLogs = 0
    /\ AuxInit
    /\ sqIn = SQNoInput
    /\ sq = SQIdle

NSNext == StartResolve

NSSpec == NSInit /\ [][NSNext]_vars

\* Scheduling: the Go runtime runs every runnable goroutine and fires every
\* running timer; a query ends within the client's timeouts (lines 214-218).
\* The caller's cancellation is not forced.
Fairness ==
    /\ WF_vars(StartNext)
    /\ \A w \in Workers : WF_vars(WorkerNext(w))
    /\ \A w \in Workers : WF_vars(Tick(w))
    /\ \A w \in Workers : \A t \in TaskIds : WF_vars(QueryNext(w, t))

FairSpec == Init /\ [][Next]_vars /\ Fairness

(* ------------------------ the heartbeat on its own --------------------- *)
\* a worker that has bootstrapped and stands at its loop head
HBInit ==
    /\ protocol = UDPProtoName
    /\ delay = 1
    /\ parallelQueries = 1
    /\ seedDomains = <<"a.example.com">>
    /\ lookup = LookupNS(FALSE, <<HostA>>)
    /\ startPc = "returned"
    /\ startErr = "nil"
    /\ lookups = 1
    /\ nameservers = getNameservers(lookup, protocol).res
    /\ spawned = 1
    /\ cancelled = FALSE
    /\ wpc = [w \in Workers |-> IF w = 1 THEN "next" ELSE "unspawned"]
    /\ stopReason = [w \in Workers |-> "none"]
    /\ round = [w \in Workers |-> 0]
    /\ qname = [w \in Workers |-> 0]
    /\ keepAliveCounter = [w \in Workers |-> 0]
    /\ spawnI = [w \in Workers |-> 0]
    /\ awaitGroup = [w \in Workers |-> 0]
    /\ ticker = [w \in Workers |-> IF w = 1 THEN "running" ELSE "none"]
    /\ tickerC = [w \in Workers |-> 0]
    /\ generator = [w \in Workers |-> IF w = 1 THEN "live" ELSE "none"]
    /\ tasks = [w \in Workers |-> [t \in TaskIds |-> "none"]]
    /\ errLogs = 0
    /\ hostAndPort = [w \in Workers |-> IF w = 1 THEN nameservers[1] ELSE <<>>]
    /\ heartbeats = [w \in Workers |-> <<>>]
    /\ firedSinceJoin = [w \in Workers |-> FALSE]
    /\ cancelCalls = [w \in Workers |-> 0]
    /\ question = [w \in Workers |-> [t \in TaskIds |-> NoQuestion]]
    /\ exchangedOn = {}
    /\ sqIn = SQNoInput
    /\ sq = SQIdle

\* lines 115-147, one pass of the loop seen from its head: the name is
\* received and the heartbeat counted (lines 115-121); the rest of the body
\* (lines 123-147) leaves the counter alone and comes back to line 115
HBRound ==
    /\ wpc[1] = "next"
    /\ generator[1] = "live"
    /\ round[1] < HBRounds
    /\ LoopHead(1)
    /\ UNCHANGED <<wpc, stopReason, spawnI, awaitGroup, ticker, tickerC, generator,
                   cfgVars, startVars, cancelled, tasks, errLogs>>
    /\ UNCHANGED <<hostAndPort, firedSinceJoin, cancelCalls, question, exchangedOn,
                   sqVars>>

HBNext == HBRound

HBSpec == HBInit /\ [][HBNext]_vars

(* ------------------------- SimpleQuery on its own ---------------------- *)
DialErrors == {"nil", "refused", "dial timeout"}
ExchangeErrors == {"nil", "reset", "read timeout"}

\* a Response with its flag never set
NewResponseFlagUnset(err, latency) ==
    [WithErr |-> FALSE, Err |-> err, Latency |-> latency]

\* lines 171-174 and 184-188: &Response{WithErr: err != nil, Err: err, ...}
NewResponse(err, latency) ==
    [WithErr |-> err # "nil", Err |-> err, Latency |-> latency]

SQInit ==
    /\ protocol \in Protocols
    /\ sqIn \in [dialErr : DialErrors, exchErr : ExchangeErrors, rtt : 0..MaxRtt]
    /\ sq = SQIdle
    /\ delay = 1
    /\ parallelQueries = 1
    /\ seedDomains = <<"a.example.com">>
    /\ lookup = LookupNS(FALSE, <<>>)
    /\ startPc = "resolve"
    /\ startErr = "none"
    /\ lookups = 0
    /\ nameservers = <<>>
    /\ spawned = 0
    /\ cancelled = FALSE
    /\ wpc = [w \in Workers |-> "unspawned"]
    /\ stopReason = [w \in Workers |-> "none"]
    /\ round = [w \in Workers |-> 0]
    /\ qname = [w \in Workers |-> 0]
    /\ keepAliveCounter = [w \in Workers |-> 0]
    /\ spawnI = [w \in Workers |-> 0]
    /\ awaitGroup = [w \in Workers |-> 0]
    /\ ticker = [w \in Workers |-> "none"]
    /\ tickerC = [w \in Workers |-> 0]
    /\ generator = [w \in Workers |-> "none"]
    /\ tasks = [w \in Workers |-> [t \in TaskIds |-> "none"]]
    /\ errLogs = 0
    /\ AuxInit

sqRest == <<cfgVars, startVars, cancelled, workerVars, tasks, errLogs, hostAndPort,
            heartbeats, firedSinceJoin, cancelCalls, question, exchangedOn, sqIn>>

\* lines 166-175: the question is built and the endpoint dialled; on a dial
\* error the Response is returned with the error and no Latency
SQDial ==
    /\ sq.pc = "idle"
    /\ IF sqIn.dialErr # "nil"
       THEN sq' = [sq EXCEPT !.pc = "returned",
                             !.response = NewResponse(sqIn.dialErr, 0)]
       ELSE sq' = [sq EXCEPT !.pc = "connected", !.conn = "open"]
    /\ UNCHANGED sqRest

\* lines 177-189: (the tcp-tls upgrade,) defer co.Close(), ExchangeWithConn on
\* co, the Response returned with the exchange's error and round-trip time
SQExchange ==
    /\ sq.pc = "connected"
    /\ sq' = [sq EXCEPT !.pc = "returned",
                        !.exchanges = @ + 1,
                        !.conn = "closed",
                        !.response = NewResponse(sqIn.exchErr, sqIn.rtt)]
    /\ UNCHANGED sqRest

SQNext == SQDial \/ SQExchange

SQSpec == SQInit /\ [][SQNext]_vars

(* ------------------------------- claims -------------------------------- *)
Outstanding(w) == Cardinality(LiveTasks(w))

\* C1: in every reachable state, the query tasks of a worker that have been
\* started and have not finished number at most ParallelQueries.
C1_BoundedFanOut == \A w \in Workers : Outstanding(w) <= parallelQueries

\* C1 witness: a second round at full fan-out, with a tick buffered and the
\* cancellation already fired
C1_Witness ==
    \E w \in Workers :
        /\ parallelQueries >= 2
        /\ round[w] = 2
        /\ Outstanding(w) = parallelQueries
        /\ tickerC[w] = 1
        /\ cancelled

AllStopped == \A w \in Workers : wpc[w] \in {"unspawned", "stopped"}

\* C2: once the cancellation has fired, every worker eventually reaches its
\* terminal state, given that every query task eventually ends.
C2_CancelStopsEveryWorker == cancelled ~> AllStopped

\* C3: a panic in a query task is contained like a returned error: the join
\* of the owning worker is never left waiting for a task that has ended.
C3_PanicContained ==
    \A w \in Workers :
        (wpc[w] = "await" /\ LiveTasks(w) = {}) => WaitReturns(w)

\* C4: a query ending with an error only writes its log line and reports to
\* the join (Done): no worker changes position, nothing is cancelled; and a
\* worker is pacing only once every task of its round has ended and reported.
C4_ErrorsDoNotAbort ==
    /\ [][errLogs' # errLogs =>
             /\ errLogs' = errLogs + 1
             /\ wpc' = wpc
             /\ stopReason' = stopReason
             /\ cancelled' = cancelled
             /\ \E w \in Workers :
                    /\ awaitGroup'[w] = awaitGroup[w] - 1
                    /\ Cardinality(LiveTasks(w)') = Cardinality(LiveTasks(w)) - 1
                    /\ \A v \in Workers \ {w} : awaitGroup'[v] = awaitGroup[v]]_vars
    /\ [](\A w \in Workers :
             wpc[w] = "pace" => (LiveTasks(w) = {} /\ awaitGroup[w] = 0))

\* C4 witness: every query of round 1 failed (ParallelQueries error lines, none
\* from round 2, whose tasks are all still running) and round 2 is dispatched
C4_Witness ==
    /\ Len(nameservers) = 1
    /\ parallelQueries >= 2
    /\ round[1] = 2
    /\ wpc[1] = "await"
    /\ Outstanding(1) = parallelQueries
    /\ errLogs = parallelQueries

\* C5: a worker is stopped only because the cancellation was observed or
\* because its generator failed to bootstrap.
C5_StoppedOnlyByCancelOrBootstrap ==
    \A w \in Workers :
        wpc[w] = "stopped" =>
            \/ stopReason[w] = "cancel" /\ cancelled
            \/ stopReason[w] = "bootstrap"
                 /\ NewDistinctHeavyHitterGenerator(seedDomains) = "error"

\* C6: the rounds of a worker never overlap: every running query task belongs
\* to the worker's current round, and the worker is then still fanning out or
\* waiting at the join.
C6_RoundsDoNotOverlap ==
    \A w \in Workers : \A t \in LiveTasks(w) :
        /\ t[1] = round[w]
        /\ wpc[w] \in {"spawn", "await"}

\* C6 witness: round 2 is being fanned out, after a round 1 that ran
C6_Witness ==
    \E w \in Workers :
        /\ round[w] = 2
        /\ wpc[w] = "spawn"
        /\ spawnI[w] = 1
        /\ \E i \in 1..MaxPQ : tasks[w][<<2, i>>] # "none"

\* C7: Start never waits: until it has returned, a step of Start is enabled
\* whatever the workers are doing, and it returns nil when the resolution
\* succeeded.
C7_StartDoesNotWait ==
    /\ startPc # "returned" => ENABLED StartNext
    /\ (startPc = "returned" /\ ~lookup.err) => startErr = "nil"

\* C7 witness: Start has returned nil and no spawned worker has taken a step
C7_Witness ==
    /\ startPc = "returned"
    /\ startErr = "nil"
    /\ spawned >= 2
    /\ \A w \in 1..spawned : wpc[w] = "ticker"

\* C8: the resolution is attempted once and before any worker is spawned; when
\* it fails, Start returns the error, no worker is spawned, no query is issued.
C8_ResolutionFailureAborts ==
    /\ lookups <= 1
    /\ startPc # "resolve" => lookups = 1
    /\ (\E w \in Workers : wpc[w] # "unspawned") => (lookups = 1 /\ ~lookup.err)
    /\ (lookup.err /\ startPc = "returned") => startErr = "error"
    /\ lookup.err =>
          /\ startErr # "nil"
          /\ spawned = 0
          /\ \A w \in Workers : wpc[w] = "unspawned" /\ LiveTasks(w) = {}
          /\ errLogs = 0

\* C8 witness: the resolution failed and Start has returned the error
C8_Witness ==
    /\ lookup.err
    /\ lookups = 1
    /\ startPc = "returned"
    /\ startErr = "error"
    /\ cancelled

\* C9: the step by which a worker's generator fails to bootstrap changes
\* nothing of the other workers, of the cancellation or of Start, and Start's
\* result is never an error when a worker got as far as the bootstrap.
C9_BootstrapFailureIsLocal ==
    /\ [][\A w \in Workers :
             (wpc[w] = "bootstrap" /\ wpc'[w] = "stopped") =>
                 /\ stopReason'[w] = "bootstrap"
                 /\ \A v \in Workers \ {w} :
                        /\ wpc'[v] = wpc[v]
                        /\ stopReason'[v] = stopReason[v]
                        /\ generator'[v] = generator[v]
                        /\ ticker'[v] = ticker[v]
                        /\ tasks'[v] = tasks[v]
                 /\ cancelled' = cancelled
                 /\ startVars' = startVars]_vars
    /\ [](\A w \in Workers : stopReason[w] = "bootstrap" => startErr # "error")

\* C9 witness: one worker has stopped on its bootstrap failure, another worker
\* is alive, Start has returned nil and nothing is cancelled
C9_Witness ==
    \E w, v \in Workers :
        /\ stopReason[w] = "bootstrap"
        /\ wpc[v] \notin {"unspawned", "stopped"}
        /\ startPc = "returned"
        /\ startErr = "nil"
        /\ ~cancelled

ExpectedPort == IF protocol = "tcp-tls" THEN <<"8", "5", "3">> ELSE <<"5", "3">>

\* C10: getNameservers returns one host:port per NS record, in the records'
\* order, with port 853 for tcp-tls and 53 for udp and tcp; on a lookup
\* failure it returns no endpoint and the error.
C10_OneEndpointPerRecord ==
    lookups = 1 =>
        IF lookup.err
        THEN nameservers = <<>> /\ startErr = "error"
        ELSE /\ startErr # "error"
             /\ Len(nameservers) = Len(lookup.hosts)
             /\ \A k \in 1..Len(lookup.hosts) :
                    nameservers[k] = lookup.hosts[k] \o <<":">> \o ExpectedPort

\* C10 witness: a tcp-tls resolution of several records, two of them different
C10_Witness ==
    /\ lookups = 1
    /\ protocol = "tcp-tls"
    /\ Len(nameservers) >= 2
    /\ nameservers[1] # nameservers[2]
    /\ nameservers[1] = <<"a", ".", ":", "8", "5", "3">>

C12_QNameSingleWriter ==
    /\ [][\A w \in Workers :
             qname'[w] # qname[w] =>
                 /\ wpc[w] = "next"
                 /\ LiveTasks(w) = {}
                 /\ tasks'[w] = tasks[w]]_vars
    /\ [](\A w \in Workers : \A t \in LiveTasks(w) :
             /\ tasks[w][t] = "dial" => qname[w] = t[1]
             /\ tasks[w][t] = "exch" => question[w][t].name = t[1])

\* C12 witness: in round 2 one task holds the round's name and another is
\* about to read it
C12_Witness ==
    \E w \in Workers :
        /\ round[w] = 2
        /\ tasks[w][<<2, 1>>] = "exch"
        /\ question[w][<<2, 1>>].name = 2
        /\ tasks[w][<<2, 2>>] = "dial"

\* C13: a worker never moves to the dispatch once the cancellation has fired;
\* the firing touches no query task; a worker that has stopped has no query
\* task left running; and a pacing worker can stop as soon as the
\* cancellation has fired, tick or no tick.
C13_CooperativeCancellation ==
    /\ [][\A w \in Workers :
             (wpc[w] # "dispatch" /\ wpc'[w] = "dispatch") =>
                 (wpc[w] = "check" /\ ~cancelled)]_vars
    /\ [][cancelled' # cancelled =>
             (tasks' = tasks /\ awaitGroup' = awaitGroup /\ wpc' = wpc)]_vars
    /\ [](\A w \in Workers : wpc[w] = "stopped" => LiveTasks(w) = {})
    /\ [](\A w \in Workers :
             (wpc[w] = "pace" /\ cancelled) => ENABLED PaceCancelled(w))

\* C13 witness: the one worker has stopped from the pacing of round 2, whose
\* query ran to its end (both rounds' queries logged their error), with no
\* tick in the channel
C13_Witness ==
    /\ Len(nameservers) = 1
    /\ parallelQueries = 1
    /\ wpc[1] = "stopped"
    /\ stopReason[1] = "cancel"
    /\ round[1] = 2
    /\ errLogs = 2
    /\ tickerC[1] = 0

\* C14: the heartbeat is logged at round 256 and every 256 rounds after it.
C14_HeartbeatEvery256 ==
    /\ round[1] >= keepAliveReminder => Len(heartbeats[1]) >= 1
    /\ \A k \in 1..Len(heartbeats[1]) : heartbeats[1][k] = keepAliveReminder * k

\* C15: one worker per resolved nameserver, in order, each with its own
\* nameserver; a round that is fanned out has exactly ParallelQueries query
\* tasks, and every one of them asks this worker's nameserver for the type-A
\* record of the round's name.
C15_OneWorkerPerNameserver ==
    /\ spawned <= Len(nameservers)
    /\ startErr = "nil" => spawned = Len(nameservers)
    /\ \A w \in Workers :
          /\ wpc[w] # "unspawned" <=> w <= spawned
          /\ wpc[w] \notin {"unspawned", "ticker"} => hostAndPort[w] = nameservers[w]
          /\ wpc[w] \in {"await", "pace"} => spawnI[w] = parallelQueries
          /\ wpc[w] = "await" =>
                awaitGroup[w] <= parallelQueries /\ Outstanding(w) <= awaitGroup[w]
          /\ \A t \in LiveTasks(w) :
                LET q == IF tasks[w][t] = "exch" THEN question[w][t] ELSE Question(w)
                IN  /\ t[2] <= spawnI[w]
                    /\ q = [name |-> round[w], qtype |-> TypeA, host |-> nameservers[w]]

\* C15 witness: two workers, each with its own nameserver, both with a
\* connected query of their first round
C15_Witness ==
    /\ spawned = 2
    /\ nameservers[1] # nameservers[2]
    /\ \A w \in 1..2 :
          /\ tasks[w][<<1, 1>>] = "exch"
          /\ question[w][<<1, 1>>].host = nameservers[w]
          /\ wpc[w] = "await"

\* C16: Cancel() is called at most once on a generator, and a worker that
\* has returned after its generator bootstrapped has called it.
C16_GeneratorReleased ==
    \A w \in Workers :
        /\ cancelCalls[w] <= 1
        /\ generator[w] = "cancelled" <=> cancelCalls[w] = 1
        /\ cancelCalls[w] = 1 => wpc[w] = "stopped"
        /\ (wpc[w] = "stopped" /\ stopReason[w] \notin {"bootstrap", "panic"}) =>
              (generator[w] = "cancelled" /\ cancelCalls[w] = 1)

\* C16 witness: stopped from the pacing of round 2, generator cancelled once
C16_Witness ==
    \E w \in Workers :
        /\ wpc[w] = "stopped"
        /\ round[w] = 2
        /\ spawnI[w] = parallelQueries
        /\ generator[w] = "cancelled"
        /\ cancelCalls[w] = 1

\* C17: every exchange of a query runs on the connection the query itself
\* dialled (co).
C17_ExchangeOnOwnConnection == exchangedOn \subseteq {"co"}

C19_TickerNeverEndsWorker ==
    \A w \in Workers :
        (wpc[w] = "stopped" /\ NewDistinctHeavyHitterGenerator(seedDomains) = "live") =>
            (ticker[w] # "none" /\ generator[w] # "none" /\ round[w] >= 1)

\* C20: no worker has returned with its ticker still running.
C20_TickerStopped ==
    \A w \in Workers : wpc[w] = "stopped" => ticker[w] # "running"

====
